---- MODULE Spec2Model ----
(***************************************************************************)
(* Event coordination core of the Gaza War Documentation site:             *)
(*   - EventBus (modules/utils.js): on / off / emit / once, with the       *)
(*     iteration of Array.prototype.forEach modelled step by step on a     *)
(*     call stack, so that callbacks can subscribe, unsubscribe, throw and  *)
(*     emit while an emit is delivering;                                   *)
(*   - GazaWarDocumentation (main.js): init, initializeModules,            *)
(*     setupModuleCommunication and the modules' init.                     *)
(* SpecBus is the bus driven by arbitrary callers; Spec is the coordinator *)
(* bootstrap.                                                              *)
(***************************************************************************)
EXTENDS Integers, Sequences, FiniteSets, TLC

VARIABLES
    events,     \* EventBus.events: event name -> [has, cbs]; cbs the callback array
    stack,      \* the JavaScript call stack: emit frames and callback frames
    exc,        \* an exception is propagating up the stack
    nextRid,    \* ghost: number of on() calls made so far, plus one
    onLog,      \* ghost: the on() calls in call order: [ev, cb]
    removed,    \* ghost: registrations (by rid) that were in the bus and no longer are
    fired,      \* ghost: per once-wrapper, how often it invoked its callback
    nEmits,     \* ghost: number of top-level emit calls made so far
    appPc,      \* GazaWarDocumentation.init: where the async function stands
    idx,        \* initializeModules: index of the descriptor being attempted
    modules,    \* GazaWarDocumentation.modules: the registry, in insertion order
    isInitialized,  \* GazaWarDocumentation.isInitialized
    missing,    \* the page: descriptors whose container selector matches nothing
    inst,       \* per descriptor, what became of its instance
    attempts,   \* ghost: per descriptor, how often its constructor was called
    tlLen,      \* Timeline.events.length
    tlIndex,    \* Timeline.currentIndex (1-based; the event shown)
    tlDates,    \* Timeline.events: the dates of the events, ascending
    mapFilter,  \* InteractiveMap: the date of the last filterByDate, 0 if none
    mapCalls,   \* ghost: number of filterByDate calls made by the route
    sentBefore, \* ghost: timeline:dateChanged emits made before init reached Ready
    sentAfter,  \* ghost: timeline:dateChanged emits made once init reached Ready
    navs,       \* ghost: number of user navigations on the timeline
    data,       \* per module, the data its init left it with
    srcFailed,  \* ghost: the modules whose data source failed during init
    initThrew,  \* ghost: the modules whose init threw outside data loading
    locDate,    \* InteractiveMap.locationData: per marker, its location's date (0: none)
    opacity,    \* InteractiveMap.markers: per marker, "full" (1) or "dim" (0.3)
    lastEmit,   \* ghost: the last event emitted on the wired bus, and its arguments
    satLocation,    \* SatelliteImagery.currentLocation
    satIndex,   \* SatelliteImagery.timelapseIndex
    rangeCalls, \* ghost: the modules the last filter:dateRange called filterByDateRange on
    hidden,     \* document.hidden
    newsTimer,  \* NewsIntegration.updateTimer holds an interval id
    newsIntervals,  \* the intervals set by startAutoUpdate and not cleared
    tlPlaying,  \* Timeline.isPlaying
    tlInterval, \* the intervals set by Timeline.play and not cleared
    satPlaying, \* SatelliteImagery.isPlaying
    satInterval,    \* the intervals set by playTimelapse and not cleared
    trip,       \* ghost: "hidden" right after a page-hidden relay, "round" right
                \* after the page-visible relay that followed it, else "none"
    snap,       \* ghost: the timers as they were before the last page-hidden relay
    destroyed,  \* ghost: per module, destroy() calls since its last operation
    lastTick,   \* ghost: the module whose timer fired last, since the last destroy
    inits,      \* ghost: number of init() calls made on the coordinator
    readyEmit,  \* ghost: per app:ready emitted, what a subscriber would find
    nImages,    \* SatelliteImagery.currentImages.length
    unloadLog,  \* ghost: the modules destroy() was called on by the unload relays, in call order
    playNotes   \* ghost: the last two of timeline:playStarted / playPaused emitted, oldest first

busOnly == <<stack, exc, onLog, removed, fired, nEmits>>
busVars == <<events, stack, exc, nextRid, onLog, removed, fired, nEmits>>
coordVars == <<appPc, idx, modules, isInitialized, missing, inst, attempts, inits, readyEmit,
               tlLen, tlIndex, mapFilter, mapCalls, sentBefore, sentAfter, navs,
               data, srcFailed, initThrew, tlDates>>
sideVars == <<locDate, opacity, lastEmit, satLocation, satIndex, nImages, rangeCalls>>
timerVars == <<newsTimer, newsIntervals, tlPlaying, tlInterval, satPlaying, satInterval>>
lifeVars == <<hidden, timerVars, trip, snap, destroyed, lastTick, unloadLog, playNotes>>
vars == <<busVars, coordVars, sideVars, lifeVars>>

-----------------------------------------------------------------------------
(* Bounds of the model *)

MaxRegs == 3      \* on()/once() calls made on the bus
MaxEmits == 2     \* emit() calls made from outside any emit
MaxEvents == 2    \* events a loaded timeline data file holds
MaxNav == 2       \* user navigations on the timeline
MaxDate == 9      \* dates are days 1..MaxDate
MaxFrames == 3    \* images a satellite load returns at most
MaxDestroy == 2   \* destroy() calls counted per module
MaxUnloads == 1   \* unload signals the page receives
MaxInits == 2     \* init() calls made on the coordinator

-----------------------------------------------------------------------------
(* Inputs: event names, emitted arguments and the callbacks callers pass *)

EventNames == {"E", "F"}
Args == {"p", "q"}
NestedArg == "z"

\* A plain function passed to on()/off()/once().
Fn(name) == [name |-> name, wid |-> 0, wev |-> ""]

\* The closure onceCallback created by one call of once(event, callback).
OnceCallback(event, name, id) == [name |-> name, wid |-> id, wev |-> event]

\* What the callers' functions do when invoked:
\*   a  returns;                t  throws;
\*   s  off("E", s) (itself);   x  off("E", a) (another callback);
\*   o  on("E", a);             n  emit("F");
\*   r  emit("E") unless it is already running (a re-entrancy guard).
MutNames(ev) == IF ev = "E" THEN {"a", "t", "s", "x", "o"} ELSE {"a"}
NestNames(ev) == IF ev = "E" THEN {"a", "t", "n", "r"} ELSE {"a", "t"}
OnceNames == {"a", "t"}

-----------------------------------------------------------------------------
(* Sequence helpers *)

Pop(s) == SubSeq(s, 1, Len(s) - 1)
Top(s) == s[Len(s)]
SetTop(s, f) == [s EXCEPT ![Len(s)] = f]
RemoveAt(s, i) == SubSeq(s, 1, i - 1) \o SubSeq(s, i + 1, Len(s))

\* Array.prototype.indexOf, 1-based; 0 when absent (JavaScript's -1).
RECURSIVE IndexFrom(_, _, _)
IndexFrom(cbs, cb, i) ==
    IF i > Len(cbs) THEN 0
    ELSE IF cbs[i].cb = cb THEN i
    ELSE IndexFrom(cbs, cb, i + 1)

indexOf(cbs, cb) == IndexFrom(cbs, cb, 1)

RECURSIVE LastIndexFrom(_, _, _)
LastIndexFrom(cbs, cb, i) ==
    IF i < 1 THEN 0
    ELSE IF cbs[i].cb = cb THEN i
    ELSE LastIndexFrom(cbs, cb, i - 1)

\* ghost: the registration ids present in the bus
AllRids(evs) ==
    UNION {{evs[e].cbs[i].rid : i \in 1..Len(evs[e].cbs)} : e \in EventNames}

-----------------------------------------------------------------------------
(* EventBus: the methods as functions of the events map *)

\* on() that ignores a callback already subscribed to the event
onMapDedupe(evs, event, cb, rid) ==
    LET cur == IF evs[event].has THEN evs[event].cbs ELSE <<>>
    IN  [evs EXCEPT ![event] =
            [has |-> TRUE,
             cbs |-> IF IndexFrom(cur, cb, 1) > 0 THEN cur
                     ELSE Append(cur, [cb |-> cb, rid |-> rid])]]

\* on(event, callback): create the array on first use, push the callback.
onMap(evs, event, cb, rid) ==
    LET cur == IF evs[event].has THEN evs[event].cbs ELSE <<>>
    IN  [evs EXCEPT ![event] =
            [has |-> TRUE, cbs |-> Append(cur, [cb |-> cb, rid |-> rid])]]

\* off() that looks the callback up with lastIndexOf
offMapLast(evs, event, cb) ==
    IF evs[event].has
    THEN LET index == LastIndexFrom(evs[event].cbs, cb, Len(evs[event].cbs))
         IN  IF index > 0
             THEN [evs EXCEPT ![event].cbs = RemoveAt(@, index)]
             ELSE evs
    ELSE evs

\* off(event, callback): splice out callbacks.indexOf(callback) when found.
offMap(evs, event, cb) ==
    IF evs[event].has
    THEN LET index == indexOf(evs[event].cbs, cb)
         IN  IF index > 0
             THEN [evs EXCEPT ![event].cbs = RemoveAt(@, index)]
             ELSE evs
    ELSE evs

-----------------------------------------------------------------------------
(* Call-stack frames *)

EmitFrame(event, arg, cbs) ==
    [kind |-> "emit", ev |-> event, arg |-> arg, k |-> 0, len |-> Len(cbs),
     snap |-> cbs, called |-> <<>>, mut |-> FALSE, cb |-> Fn(""), pc |-> ""]

CallFrame(cb, arg) ==
    [kind |-> "call", ev |-> "", arg |-> arg, k |-> 0, len |-> 0,
     snap |-> <<>>, called |-> <<>>, mut |-> FALSE, cb |-> cb, pc |-> "body"]

\* ghost: note on every emit in progress that the bus changed under it
MarkMut(stk, changed) ==
    [i \in DOMAIN stk |->
        IF changed /\ stk[i].kind = "emit" THEN [stk[i] EXCEPT !.mut = TRUE]
        ELSE stk[i]]

\* an emit that delivers only after the function calling it has returned
emitCallDeferred(stk, evs, event, arg) ==
    IF ~evs[event].has THEN stk
    ELSE IF stk = <<>> THEN <<EmitFrame(event, arg, evs[event].cbs)>>
    ELSE Append(Append(Pop(stk), EmitFrame(event, arg, evs[event].cbs)), Top(stk))

\* emit(event, ...args) called with `stk` below it: forEach over the array, if any.
emitCall(stk, evs, event, arg) ==
    IF evs[event].has
    THEN Append(stk, EmitFrame(event, arg, evs[event].cbs))
    ELSE stk

Idle == stack = <<>> /\ ~exc

Markers == {"m1", "m2"}

\* The modules' own state before any route or control has acted on it.
SideNew ==
    /\ locDate = [mk \in Markers |-> 0]
    /\ opacity = [mk \in Markers |-> "full"]
    /\ lastEmit = [ev |-> "none", a |-> 0, b |-> 0]
    /\ satLocation = "gaza-strip"
    /\ satIndex = 0
    /\ nImages = 0
    /\ rangeCalls = {}

\* The timers of the modules (1: an interval is set and not cleared).
Timers ==
    [news |-> newsIntervals, timeline |-> tlInterval, satellite |-> satInterval,
     newsTimer |-> newsTimer, tlPlaying |-> tlPlaying, satPlaying |-> satPlaying]

\* The page and the modules' timers before init: nothing runs.
LifeNew ==
    /\ hidden = FALSE
    /\ newsTimer = FALSE
    /\ newsIntervals = 0
    /\ tlPlaying = FALSE
    /\ tlInterval = 0
    /\ satPlaying = FALSE
    /\ satInterval = 0
    /\ trip = "none"
    /\ snap = Timers
    /\ destroyed = [m \in {"timeline", "map", "news", "satellite", "sources"} |-> 0]
    /\ lastTick = "none"
    /\ unloadLog = <<>>
    /\ playNotes = <<>>

ModuleOrder == <<"timeline", "map", "news", "satellite", "sources">>
ModuleNames == {ModuleOrder[i] : i \in DOMAIN ModuleOrder}

\* What a subscriber of app:ready finds when it runs: isReady(), the routes
\* installed, every descriptor attempted and settled.
ReadySeen(ready, wired, attempted) ==
    [isReady |-> ready, wired |-> wired, attempted |-> attempted]

\* new GazaWarDocumentation(): empty registry, not initialized.
CoordNew ==
    /\ appPc = "new"
    /\ idx = 1
    /\ modules = <<>>
    /\ isInitialized = FALSE
    /\ inst = [m \in ModuleNames |-> "none"]
    /\ attempts = [m \in ModuleNames |-> 0]
    /\ inits = 0
    /\ readyEmit = <<>>
    /\ tlLen = 0
    /\ tlIndex = 1
    /\ tlDates = <<>>
    /\ mapFilter = 0
    /\ mapCalls = 0
    /\ sentBefore = 0
    /\ sentAfter = 0
    /\ navs = 0
    /\ data = [m \in ModuleNames |-> "none"]
    /\ srcFailed = {}
    /\ initThrew = {}

\* The events of the application: those of the routing table, and two that
\* are emitted but that nothing subscribes to.
RouteEvents == {"timeline:dateChanged", "map:locationSelected",
                "news:articleSelected", "filter:dateRange"}
AppEvents == RouteEvents \cup {"timeline:eventChanged", "app:ready"}

\* new EventBus(): no event has a callback array.
BusNew ==
    /\ events = [e \in EventNames \cup AppEvents |-> [has |-> FALSE, cbs |-> <<>>]]
    /\ stack = <<>>
    /\ exc = FALSE
    /\ nextRid = 1
    /\ onLog = <<>>
    /\ removed = {}
    /\ fired = [i \in 1..MaxRegs |-> 0]
    /\ nEmits = 0

BusInit ==
    /\ CoordNew
    /\ SideNew
    /\ LifeNew
    /\ missing = {}
    /\ BusNew

\* ghost bookkeeping common to every step that may change the bus
Ghost == removed' = removed \cup (AllRids(events) \ AllRids(events'))

-----------------------------------------------------------------------------
(* Calls made by the bus's users from outside any emit *)

on(event, name) ==
    /\ Idle
    /\ nextRid <= MaxRegs
    /\ events' = onMap(events, event, Fn(name), nextRid)
    /\ nextRid' = nextRid + 1
    /\ onLog' = Append(onLog, [ev |-> event, cb |-> Fn(name)])
    /\ Ghost
    /\ UNCHANGED <<stack, exc, fired, nEmits>>

\* once(event, callback): this.on(event, onceCallback) with a fresh closure.
once(event, name) ==
    /\ Idle
    /\ nextRid <= MaxRegs
    /\ LET w == OnceCallback(event, name, nextRid)
       IN  /\ events' = onMap(events, event, w, nextRid)
           /\ onLog' = Append(onLog, [ev |-> event, cb |-> w])
           /\ Ghost
    /\ nextRid' = nextRid + 1
    /\ UNCHANGED <<stack, exc, fired, nEmits>>

off(event, name) ==
    /\ Idle
    /\ events' = offMap(events, event, Fn(name))
    /\ Ghost
    /\ UNCHANGED <<stack, exc, nextRid, onLog, fired, nEmits>>

emit(event, arg) ==
    /\ Idle
    /\ nEmits < MaxEmits
    /\ nEmits' = nEmits + 1
    /\ stack' = emitCall(stack, events, event, arg)
    /\ UNCHANGED <<events, exc, nextRid, onLog, removed, fired>>

-----------------------------------------------------------------------------
(* emit's delivery loop: this.events.get(event).forEach(callback => {...})  *)
(* forEach reads the array's length once, then for each index below it     *)
(* that is still present in the array invokes the element found there.     *)

InEmit == stack # <<>> /\ ~exc /\ Top(stack).kind = "emit"
InCall == stack # <<>> /\ ~exc /\ Top(stack).kind = "call"

\* One iteration of forEach in the emit frame on top of `stk`.
forEach(stk, evs) ==
    LET f   == Top(stk)
        cbs == evs[f.ev].cbs
    IN  IF f.k + 1 <= Len(cbs)
        THEN Append(
                SetTop(stk, [f EXCEPT !.k = f.k + 1,
                                      !.called = Append(@,
                                          [rid |-> cbs[f.k + 1].rid,
                                           cb |-> cbs[f.k + 1].cb,
                                           arg |-> f.arg, threw |-> FALSE])]),
                CallFrame(cbs[f.k + 1].cb, f.arg))
        ELSE SetTop(stk, [f EXCEPT !.k = f.k + 1])

forEachStep ==
    /\ InEmit
    /\ Top(stack).k < Top(stack).len
    /\ stack' = forEach(stack, events)
    /\ UNCHANGED <<events, exc, nextRid, onLog, removed, fired, nEmits>>

\* forEach is done: emit returns to its caller.
emitReturn ==
    /\ InEmit
    /\ Top(stack).k = Top(stack).len
    /\ stack' = Pop(stack)
    /\ UNCHANGED <<events, exc, nextRid, onLog, removed, fired, nEmits>>

\* catch (error) { console.error(...) } around each callback(...args).
catchError(stk) ==
    LET f == Top(stk)
    IN  [stack |-> SetTop(stk, [f EXCEPT !.called[Len(f.called)].threw = TRUE]),
         exc |-> FALSE]

catch ==
    /\ exc
    /\ stack # <<>>
    /\ Top(stack).kind = "emit"
    /\ stack' = catchError(stack).stack
    /\ exc' = catchError(stack).exc
    /\ UNCHANGED <<events, nextRid, onLog, removed, fired, nEmits>>

\* An exception leaves a function that has no handler (onceCallback has none).
unwind ==
    /\ exc
    /\ stack # <<>>
    /\ Top(stack).kind = "call"
    /\ stack' = Pop(stack)
    /\ UNCHANGED <<events, exc, nextRid, onLog, removed, fired, nEmits>>

-----------------------------------------------------------------------------
(* The callbacks' bodies *)

Body(name) == InCall /\ Top(stack).pc = "body"
                     /\ Top(stack).cb.wid = 0 /\ Top(stack).cb.name = name

\* r's guard: an invocation of r is already on the stack below this one
Reentrant ==
    \E i \in 1..(Len(stack) - 1) :
        stack[i].kind = "call" /\ stack[i].cb = Fn("r")

callReturn ==
    /\ \/ Body("a")
       \/ Body("r") /\ Reentrant
       \/ Body("o") /\ nextRid > MaxRegs
       \/ InCall /\ Top(stack).pc = "ret"
    /\ stack' = Pop(stack)
    /\ UNCHANGED <<events, exc, nextRid, onLog, removed, fired, nEmits>>

callThrow ==
    /\ Body("t")
    /\ stack' = Pop(stack)
    /\ exc' = TRUE
    /\ UNCHANGED <<events, nextRid, onLog, removed, fired, nEmits>>

\* s: bus.off("E", s);  x: bus.off("E", a)
callOff ==
    /\ Body("s") \/ Body("x")
    /\ LET target == IF Top(stack).cb.name = "s" THEN Fn("s") ELSE Fn("a")
       IN  /\ events' = offMap(events, "E", target)
           /\ Ghost
    /\ stack' = MarkMut(Pop(stack), events' # events)
    /\ UNCHANGED <<exc, nextRid, onLog, fired, nEmits>>

\* o: bus.on("E", a)
callOn ==
    /\ Body("o")
    /\ nextRid <= MaxRegs
    /\ events' = onMap(events, "E", Fn("a"), nextRid)
    /\ nextRid' = nextRid + 1
    /\ onLog' = Append(onLog, [ev |-> "E", cb |-> Fn("a")])
    /\ Ghost
    /\ stack' = MarkMut(Pop(stack), TRUE)
    /\ UNCHANGED <<exc, fired, nEmits>>

\* n: bus.emit("F", z);  r: bus.emit("E", z) unless re-entered
callEmit ==
    /\ Body("n") \/ (Body("r") /\ ~Reentrant)
    /\ LET event == IF Top(stack).cb.name = "n" THEN "F" ELSE "E"
       IN  stack' = emitCall(SetTop(stack, [Top(stack) EXCEPT !.pc = "ret"]),
                             events, event, NestedArg)
    /\ UNCHANGED <<events, exc, nextRid, onLog, removed, fired, nEmits>>

\* onceCallback, first statement: callback(...args)
onceInvoke ==
    /\ InCall
    /\ Top(stack).pc = "body"
    /\ Top(stack).cb.wid > 0
    /\ stack' = Append(SetTop(stack, [Top(stack) EXCEPT !.pc = "off"]),
                       CallFrame(Fn(Top(stack).cb.name), Top(stack).arg))
    /\ fired' = [fired EXCEPT ![Top(stack).cb.wid] = @ + 1]
    /\ UNCHANGED <<events, exc, nextRid, onLog, removed, nEmits>>

\* onceCallback, second statement: this.off(event, onceCallback)
onceOff ==
    /\ InCall
    /\ Top(stack).pc = "off"
    /\ events' = offMap(events, Top(stack).cb.wev, Top(stack).cb)
    /\ Ghost
    /\ stack' = MarkMut(Pop(stack), events' # events)
    /\ UNCHANGED <<exc, nextRid, onLog, fired, nEmits>>

-----------------------------------------------------------------------------

\* The bus under callers whose callbacks subscribe, unsubscribe and throw.
BusNext ==
    \/ (\E e \in EventNames : \E n \in MutNames(e) : on(e, n)) /\ UNCHANGED <<coordVars, sideVars, lifeVars>>
    \/ (\E n \in OnceNames : once("E", n)) /\ UNCHANGED <<coordVars, sideVars, lifeVars>>
    \/ (\E e \in EventNames : \E n \in MutNames(e) : off(e, n)) /\ UNCHANGED <<coordVars, sideVars, lifeVars>>
    \/ (\E e \in EventNames : \E a \in Args : emit(e, a)) /\ UNCHANGED <<coordVars, sideVars, lifeVars>>
    \/ forEachStep /\ UNCHANGED <<coordVars, sideVars, lifeVars>>
    \/ emitReturn /\ UNCHANGED <<coordVars, sideVars, lifeVars>>
    \/ catch /\ UNCHANGED <<coordVars, sideVars, lifeVars>>
    \/ unwind /\ UNCHANGED <<coordVars, sideVars, lifeVars>>
    \/ callReturn /\ UNCHANGED <<coordVars, sideVars, lifeVars>>
    \/ callThrow /\ UNCHANGED <<coordVars, sideVars, lifeVars>>
    \/ callOff /\ UNCHANGED <<coordVars, sideVars, lifeVars>>
    \/ callOn /\ UNCHANGED <<coordVars, sideVars, lifeVars>>
    \/ onceInvoke /\ UNCHANGED <<coordVars, sideVars, lifeVars>>
    \/ onceOff /\ UNCHANGED <<coordVars, sideVars, lifeVars>>

SpecBus == BusInit /\ [][BusNext]_vars

\* The bus under callers whose callbacks emit from inside an emit (without
\* once() a throwing callback is always called by emit itself, which catches).
NestNext ==
    \/ (\E e \in EventNames : \E n \in NestNames(e) : on(e, n)) /\ UNCHANGED <<coordVars, sideVars, lifeVars>>
    \/ (\E e \in EventNames : \E n \in NestNames(e) : off(e, n)) /\ UNCHANGED <<coordVars, sideVars, lifeVars>>
    \/ (\E e \in EventNames : \E a \in Args : emit(e, a)) /\ UNCHANGED <<coordVars, sideVars, lifeVars>>
    \/ forEachStep /\ UNCHANGED <<coordVars, sideVars, lifeVars>>
    \/ emitReturn /\ UNCHANGED <<coordVars, sideVars, lifeVars>>
    \/ catch /\ UNCHANGED <<coordVars, sideVars, lifeVars>>
    \/ callReturn /\ UNCHANGED <<coordVars, sideVars, lifeVars>>
    \/ callThrow /\ UNCHANGED <<coordVars, sideVars, lifeVars>>
    \/ callEmit /\ UNCHANGED <<coordVars, sideVars, lifeVars>>

SpecNest == BusInit /\ [][NestNext]_vars

-----------------------------------------------------------------------------
(* The coordinator: GazaWarDocumentation.init *)

\* Timeline.loadFallbackData installs three events.
FallbackEvents == 3

\* The modules whose init rethrows what it caught; the others log the
\* error, show a fallback or an error state, and resolve.
Rethrows(m) == m \in {"timeline", "map"}

\* A route that calls its target without looking it up.
InRegistryUnchecked(m) == TRUE

\* this.modules.get(name) is defined.
InRegistry(m) == \E i \in DOMAIN modules : modules[i] = m

\* The order of the steps of init(), wiring the routes before the modules.
NextPhaseWireFirst(p) ==
    CASE p = "new" -> "wire"
      [] p = "wire" -> "modules"
      [] p = "modules" -> "finish"
      [] OTHER -> "ready"

\* The order of the steps of init(): initializeModules, then
\* setupModuleCommunication, then isInitialized and app:ready.
NextPhase(p) ==
    CASE p = "new" -> "modules"
      [] p = "modules" -> "wire"
      [] p = "wire" -> "finish"
      [] OTHER -> "ready"

\* The loop of initializeModules leaving the loop on the first failure.
AfterFailureBreak(i) == Len(ModuleOrder) + 1

\* The catch of the loop body: log, and go on with the next descriptor.
AfterFailure(i) == i + 1

\* module.init() called and not awaited: the loop goes on at once.
afterInitStartedNoAwait(i) == [pc |-> "modules", idx |-> i + 1]

\* await module.init(): the loop is suspended until the promise settles.
afterInitStarted(i) == [pc |-> "awaitInit", idx |-> i]

\* The callbacks emit(event) invokes, in order (the routes never touch the bus).
Invoked(evs, event) == IF evs[event].has THEN evs[event].cbs ELSE <<>>

\* What emit('timeline:dateChanged', date) does to the map: each route
\* callback looks the map up in the registry and calls filterByDate(date).
dateChanged(evs, date) ==
    LET n == IF InRegistry("map") THEN Len(Invoked(evs, "timeline:dateChanged")) ELSE 0
    IN  [calls |-> mapCalls + n, filter |-> IF n > 0 THEN date ELSE mapFilter]

Bootstrapping == appPc \in {"modules", "awaitInit"}

\* Timeline.updateEventDisplay for the event at index i: nothing if there is
\* no such event, else emit timeline:eventChanged and timeline:dateChanged.
updateEventDisplay(len, i) ==
    IF i \in 1..len
    THEN /\ mapCalls' = dateChanged(events, i).calls
         /\ mapFilter' = dateChanged(events, i).filter
         /\ sentBefore' = IF Bootstrapping THEN sentBefore + 1 ELSE sentBefore
         /\ sentAfter' = IF Bootstrapping THEN sentAfter ELSE sentAfter + 1
    ELSE UNCHANGED <<mapCalls, mapFilter, sentBefore, sentAfter>>

\* init() is called while the coordinator is at `from`: there is no guard on
\* isInitialized; the synchronous prefix runs up to the first step, the loop
\* of initializeModules starting at the first descriptor.
initCall(from) ==
    /\ appPc = from
    /\ inits < MaxInits
    /\ appPc' = NextPhase("new")
    /\ idx' = 1
    /\ inits' = inits + 1
    /\ UNCHANGED <<modules, isInitialized, missing, inst, attempts, readyEmit, tlLen,
                   tlIndex, mapFilter, mapCalls, sentBefore, sentAfter, navs>>
    /\ UNCHANGED <<data, srcFailed, initThrew, tlDates>>
    /\ UNCHANGED <<events, nextRid, busOnly, sideVars, lifeVars>>

\* The call of init() made on DOMContentLoaded.
init == initCall("new")

\* A further call of init() on the Ready coordinator (window.GazaWarApp.init()).
initAgain == initCall("ready")

\* A constructor that builds the map without its container.
ctorThrowsExceptMap(m) == m \in missing /\ m # "map"

\* The constructor of every module class: document.querySelector(container),
\* and throw '... container not found' when it matches nothing.
ctorThrows(m) == m \in missing

\* Map.prototype.set on the registry: a new key goes last, a key already
\* there keeps its place.
mapSet(reg, m) ==
    IF \E i \in DOMAIN reg : reg[i] = m THEN reg ELSE Append(reg, m)

\* The numbers of images a load of the last thirty days can return (one
\* image every three to seven days).
DefaultFrames == {MaxFrames - 1, MaxFrames}

\* One turn of the loop up to the await: new ModuleClass(...) and module.init().
construct ==
    /\ appPc = "modules"
    /\ idx <= Len(ModuleOrder)
    /\ LET m == ModuleOrder[idx]
       IN  /\ attempts' = [attempts EXCEPT ![m] = @ + 1]
           /\ IF ctorThrows(m)
              THEN /\ inst' = [inst EXCEPT ![m] = "ctorThrew"]
                   /\ idx' = AfterFailure(idx)
                   /\ appPc' = appPc
              ELSE /\ inst' = [inst EXCEPT ![m] = "initializing"]
                   /\ idx' = afterInitStarted(idx).idx
                   /\ appPc' = afterInitStarted(idx).pc
    /\ UNCHANGED <<modules, isInitialized, missing, inits, readyEmit, tlLen, tlIndex,
                   mapFilter, mapCalls, sentBefore, sentAfter, navs>>
    /\ UNCHANGED <<data, srcFailed, initThrew, tlDates>>
    /\ UNCHANGED <<events, nextRid, busOnly, sideVars, lifeVars>>

\* The routing table of setupModuleCommunication: event and callback.
RouteTable ==
    << [ev |-> "timeline:dateChanged", cb |-> Fn("map.filterByDate")],
       [ev |-> "map:locationSelected", cb |-> Fn("satellite.showLocation")],
       [ev |-> "news:articleSelected", cb |-> Fn("timeline.navigateToDate")],
       [ev |-> "filter:dateRange", cb |-> Fn("module.filterByDateRange")] >>

RECURSIVE subscribeAll(_, _, _, _)
subscribeAll(evs, table, i, rid) ==
    IF i > Len(table) THEN evs
    ELSE subscribeAll(onMap(evs, table[i].ev, table[i].cb, rid), table, i + 1, rid + 1)

\* The sizes of the event list a timeline data file can hold.
DataSizes == 0..MaxEvents

\* The modules whose loader installs its built-in dataset when the data
\* source fails (Timeline.loadData, InteractiveMap.loadData).
FallsBack(m) == m \in {"timeline", "map"}

\* The modules that fetch their data over HTTP (HttpClient.get), which can
\* fail; news and satellite build theirs locally (getMockNewsData,
\* fetchSatelliteData for the default location).
HasRemoteSource(m) == m \in {"timeline", "map", "sources"}

\* The data a module holds when its init has settled.  The source answered:
\* what it sent.  The source failed: the fallback dataset for the timeline
\* and the map; for news, satellite and sources the loader shows the error
\* state and the data stays empty.  NewsIntegration.init installs its
\* fallback articles when anything else in init throws.
dataAfter(m, srcOk, fail) ==
    IF m = "news" /\ fail # "none" THEN "fallback"
    ELSE IF srcOk THEN "loaded"
    ELSE IF FallsBack(m) THEN "fallback"
    ELSE "error"

\* The promise of module.init() settles and the loop resumes: the rest of
\* init runs (for the timeline up to its first render, unless it failed
\* before), then modules.set on success, the catch on rejection.
moduleInitSettled(fail, srcOk, n) ==
    /\ appPc = "awaitInit"
    /\ srcOk \/ HasRemoteSource(ModuleOrder[idx])
    /\ LET m == ModuleOrder[idx]
           rejected == fail # "none" /\ Rethrows(m)
           len == IF srcOk THEN n ELSE FallbackEvents
       IN  /\ tlLen' = IF m = "timeline" THEN len ELSE tlLen
           /\ tlDates' = IF m = "timeline" THEN [i \in 1..len |-> i] ELSE tlDates
           /\ data' = [data EXCEPT ![m] = dataAfter(m, srcOk, fail)]
           /\ srcFailed' = IF srcOk THEN srcFailed ELSE srcFailed \cup {m}
           /\ initThrew' = IF fail = "none" THEN initThrew ELSE initThrew \cup {m}
           /\ IF m = "timeline" /\ fail # "early"
              THEN updateEventDisplay(len, tlIndex)
              ELSE UNCHANGED <<mapCalls, mapFilter, sentBefore, sentAfter>>
           /\ IF rejected
              THEN /\ inst' = [inst EXCEPT ![m] = "rejected"]
                   /\ modules' = modules
                   /\ idx' = AfterFailure(idx)
              ELSE /\ inst' = [inst EXCEPT ![m] = "resolved"]
                   /\ modules' = mapSet(modules, m)
                   /\ idx' = idx + 1
    /\ appPc' = "modules"
    /\ IF ModuleOrder[idx] = "news" /\ fail = "none"
       THEN /\ newsTimer' = TRUE
            /\ newsIntervals' = newsIntervals + 1
       ELSE UNCHANGED <<newsTimer, newsIntervals>>
    /\ \E k \in DefaultFrames :
           nImages' = IF ModuleOrder[idx] = "satellite" /\ fail # "early" THEN k ELSE nImages
    /\ UNCHANGED <<isInitialized, missing, attempts, inits, readyEmit, tlIndex, navs>>
    /\ UNCHANGED <<events, nextRid, busOnly, locDate, opacity, lastEmit,
                   satLocation, satIndex, rangeCalls>>
    /\ UNCHANGED <<hidden, tlPlaying, tlInterval, satPlaying, satInterval,
                   trip, snap, unloadLog, destroyed, lastTick, playNotes>>

\* The loop is over: initializeModules returns.
initializeModules ==
    /\ appPc = "modules"
    /\ idx > Len(ModuleOrder)
    /\ appPc' = NextPhase("modules")
    /\ UNCHANGED <<idx, modules, isInitialized, missing, inst, attempts, inits, readyEmit, tlLen,
                   tlIndex, mapFilter, mapCalls, sentBefore, sentAfter, navs>>
    /\ UNCHANGED <<data, srcFailed, initThrew, tlDates>>
    /\ UNCHANGED <<events, nextRid, busOnly, sideVars, lifeVars>>

\* Four eventBus.on calls, one per route.
setupModuleCommunication ==
    /\ appPc = "wire"
    /\ events' = subscribeAll(events, RouteTable, 1, nextRid)
    /\ nextRid' = nextRid + Len(RouteTable)
    /\ appPc' = NextPhase("wire")
    /\ UNCHANGED <<idx, modules, isInitialized, missing, inst, attempts, inits, readyEmit, tlLen,
                   tlIndex, mapFilter, mapCalls, sentBefore, sentAfter, navs>>
    /\ UNCHANGED <<data, srcFailed, initThrew, tlDates>>
    /\ UNCHANGED <<busOnly, sideVars, lifeVars>>

\* The flag isReady() returns to a subscriber of app:ready, read before
\* the assignment isInitialized = true.
flagAtEmitStale(old) == old

\* The flag isReady() returns to a subscriber of app:ready: the assignment
\* isInitialized = true precedes the emit.
flagAtEmit(old) == TRUE

\* hideLoading, isInitialized = true, emit('app:ready') (nothing subscribes).
appReady ==
    /\ appPc = "finish"
    /\ isInitialized' = TRUE
    /\ Invoked(events, "app:ready") = <<>>
    /\ readyEmit' = Append(readyEmit,
           ReadySeen(flagAtEmit(isInitialized),
                     \A e \in RouteEvents : events[e].has,
                     \A m \in ModuleNames :
                         attempts[m] >= inits
                         /\ inst[m] \in {"ctorThrew", "resolved", "rejected"}))
    /\ appPc' = NextPhase("finish")
    /\ UNCHANGED <<idx, modules, missing, inst, attempts, inits, tlLen, tlIndex,
                   mapFilter, mapCalls, sentBefore, sentAfter, navs>>
    /\ UNCHANGED <<data, srcFailed, initThrew, tlDates>>
    /\ UNCHANGED <<events, nextRid, busOnly, sideVars, lifeVars>>

\* The user moves the timeline (slider, marker, next, previous): goToEvent.
\* It can only happen while no JavaScript runs: during an await, or after init.
goToEvent(index) ==
    /\ appPc \in {"awaitInit", "ready"}
    /\ inst["timeline"] = "resolved"
    /\ navs < MaxNav
    /\ navs' = navs + 1
    /\ IF index \in 1..tlLen
       THEN /\ tlIndex' = index
            /\ updateEventDisplay(tlLen, index)
       ELSE UNCHANGED <<tlIndex, mapCalls, mapFilter, sentBefore, sentAfter>>
    /\ UNCHANGED <<appPc, idx, modules, isInitialized, missing, inst, attempts, inits, readyEmit, tlLen>>
    /\ UNCHANGED <<data, srcFailed, initThrew, tlDates>>
    /\ UNCHANGED <<events, nextRid, busOnly, sideVars, lifeVars>>

\* The page is loaded: any of the five regions may be missing from it.
Init ==
    /\ CoordNew
    /\ SideNew
    /\ LifeNew
    /\ missing \in SUBSET ModuleNames
    /\ BusNew

Next ==
    \/ init
    \/ construct
    \/ \E fail \in {"none", "early", "late"} : \E srcOk \in BOOLEAN :
           \E n \in DataSizes : moduleInitSettled(fail, srcOk, n)
    \/ initializeModules
    \/ setupModuleCommunication
    \/ appReady
    \/ \E index \in 0..(tlLen + 1) : goToEvent(index)

Spec == Init /\ [][Next]_vars

\* The bootstrap followed by further calls of init(): every data source
\* answers, an init may still throw after its data is loaded.
ReinitInit ==
    /\ CoordNew
    /\ SideNew
    /\ LifeNew
    /\ missing \in SUBSET {"map", "sources"}
    /\ BusNew

ReinitNext ==
    \/ init
    \/ initAgain
    \/ construct
    \/ \E fail \in {"none", "late"} : moduleInitSettled(fail, TRUE, MaxEvents)
    \/ initializeModules
    \/ setupModuleCommunication
    \/ appReady

SpecReinit == ReinitInit /\ [][ReinitNext]_vars


-----------------------------------------------------------------------------
(* The routes of setupModuleCommunication, on the initialized application *)

\* filterByDate shows the markers within this many days of the target date.
WindowDays == 7

Abs(x) == IF x < 0 THEN -x ELSE x

\* The dates a location of the map data can carry (0: the record has none).
LocDates == {0, 1, MaxDate - 1, MaxDate}

\* The dates timeline:dateChanged is emitted with.
DateSamples == {1, 2, MaxDate - 1, MaxDate}

RECURSIVE Registered(_, _)
\* the descriptors from position i on whose region is on the page
Registered(absent, i) ==
    IF i > Len(ModuleOrder) THEN <<>>
    ELSE IF ModuleOrder[i] \in absent
         THEN Registered(absent, i + 1)
         ELSE <<ModuleOrder[i]>> \o Registered(absent, i + 1)

\* InteractiveMap.filterByDate: a marker whose location has a date gets
\* opacity 1 within WindowDays of the target and 0.3 otherwise; a marker
\* whose location has no date is left as it is.
filterByDate(op, dates, date) ==
    [mk \in DOMAIN op |->
        IF dates[mk] # 0
        THEN IF Abs(date - dates[mk]) <= WindowDays THEN "full" ELSE "dim"
        ELSE op[mk]]

\* SatelliteImagery.locations, in the order of the Map: key and bounds, in
\* hundredths of a degree.
locations ==
    << [key |-> "gaza-strip", north |-> 3159, south |-> 3122, east |-> 3457, west |-> 3422],
       [key |-> "gaza-city", north |-> 3152, south |-> 3148, east |-> 3448, west |-> 3444],
       [key |-> "rafah", north |-> 3132, south |-> 3128, east |-> 3426, west |-> 3422],
       [key |-> "khan-younis", north |-> 3136, south |-> 3132, east |-> 3432, west |-> 3428] >>
LocationKeys == {locations[i].key : i \in DOMAIN locations}

\* The bounds test of findLocationByCoordinates.
InBounds(lat, lng, loc) ==
    lat >= loc.south /\ lat <= loc.north /\ lng >= loc.west /\ lng <= loc.east

RECURSIVE findFrom(_, _, _)
findFrom(lat, lng, i) ==
    IF i > Len(locations) THEN ""
    ELSE IF InBounds(lat, lng, locations[i]) THEN locations[i].key
    ELSE findFrom(lat, lng, i + 1)

\* SatelliteImagery.findLocationByCoordinates: the key of the first region,
\* in the order of the Map, whose bounds hold the point; "" for null.
findLocationByCoordinates(lat, lng) == findFrom(lat, lng, 1)

\* Coordinates of selected locations, in hundredths of a degree: inside
\* rafah, khan-younis and gaza-city, inside the strip only, and outside it.
CoordSamples ==
    {<<3130, 3424>>, <<3134, 3430>>, <<3150, 3446>>, <<3140, 3440>>, <<3100, 3400>>}

\* The event lists of the timeline the routes are exercised on: none, and
\* two events four days apart.
TimelineData == {<<>>, <<2, 6>>}

\* The application after init(): every module whose region is on the page is
\* registered, the routes are subscribed, and the map holds its location data.
RoutesInit ==
    /\ missing \in SUBSET {"timeline", "map", "satellite"}
    /\ appPc = "ready"
    /\ idx = Len(ModuleOrder) + 1
    /\ modules = Registered(missing, 1)
    /\ isInitialized = TRUE
    /\ inst = [m \in ModuleNames |-> IF m \in missing THEN "ctorThrew" ELSE "resolved"]
    /\ attempts = [m \in ModuleNames |-> 1]
    /\ inits = 1
    /\ readyEmit = <<ReadySeen(TRUE, TRUE, TRUE)>>
    /\ data = [m \in ModuleNames |-> IF m \in missing THEN "none" ELSE "loaded"]
    /\ srcFailed = {}
    /\ initThrew = {}
    /\ tlDates \in TimelineData
    /\ tlLen = Len(tlDates)
    /\ tlIndex \in {1} \cup (1..tlLen)
    /\ mapFilter = 0
    /\ mapCalls = 0
    /\ sentBefore = 0
    /\ sentAfter = 0
    /\ navs = 0
    /\ events = subscribeAll([e \in EventNames \cup AppEvents |-> [has |-> FALSE, cbs |-> <<>>]],
                             RouteTable, 1, 1)
    /\ nextRid = Len(RouteTable) + 1
    /\ stack = <<>>
    /\ exc = FALSE
    /\ onLog = <<>>
    /\ removed = {}
    /\ fired = [i \in 1..MaxRegs |-> 0]
    /\ nEmits = 0
    /\ locDate \in [Markers -> LocDates]
    /\ opacity = [mk \in Markers |-> "full"]
    /\ lastEmit = [ev |-> "none", a |-> 0, b |-> 0]
    /\ satLocation = "gaza-strip"
    /\ nImages = (IF "satellite" \in missing THEN 0 ELSE MaxFrames)
    /\ satIndex = (IF "satellite" \in missing THEN 0 ELSE 1)
    /\ rangeCalls = {}
    /\ unloadLog = <<>>
    /\ playNotes = <<>>
    /\ hidden = FALSE
    /\ newsTimer = TRUE
    /\ newsIntervals = 1
    /\ tlPlaying = FALSE
    /\ tlInterval = 0
    /\ satPlaying = FALSE
    /\ satInterval = 0
    /\ trip = "none"
    /\ snap = Timers
    /\ destroyed = [m \in ModuleNames |-> 0]
    /\ lastTick = "none"

\* emit('timeline:dateChanged', date): the route looks the map up and calls
\* filterByDate(date) on it.
emitDateChanged(date) ==
    /\ lastEmit' = [ev |-> "timeline:dateChanged", a |-> date, b |-> 0]
    /\ IF Invoked(events, "timeline:dateChanged") # <<>> /\ InRegistry("map")
       THEN /\ opacity' = filterByDate(opacity, locDate, date)
            /\ mapFilter' = date
       ELSE UNCHANGED <<opacity, mapFilter>>
    /\ UNCHANGED <<appPc, idx, modules, isInitialized, missing, inst, attempts, inits, readyEmit,
                   tlLen, tlIndex, mapCalls, sentBefore, sentAfter, navs,
                   data, srcFailed, initThrew, tlDates>>
    /\ UNCHANGED <<locDate, satLocation, satIndex, nImages, rangeCalls>>
    /\ UNCHANGED <<busVars, lifeVars>>

\* emit('map:locationSelected', location): the route looks the satellite
\* module up and calls showLocation(location) on it, which changes to the
\* region found for the coordinates, if any: changeLocation sets
\* currentLocation, resets timelapseIndex and loads the region's images.
emitLocationSelected(lat, lng) ==
    /\ lastEmit' = [ev |-> "map:locationSelected", a |-> lat, b |-> lng]
    /\ IF /\ Invoked(events, "map:locationSelected") # <<>>
          /\ InRegistry("satellite")
          /\ findLocationByCoordinates(lat, lng) # ""
       THEN /\ satLocation' = findLocationByCoordinates(lat, lng)
            /\ satIndex' = 0
            /\ nImages' \in DefaultFrames
       ELSE UNCHANGED <<satLocation, satIndex, nImages>>
    /\ UNCHANGED coordVars
    /\ UNCHANGED <<locDate, opacity, rangeCalls>>
    /\ UNCHANGED <<busVars, lifeVars>>

RECURSIVE closestFrom(_, _, _, _)
closestFrom(dates, target, i, best) ==
    IF i > Len(dates) THEN best
    ELSE IF Abs(dates[i] - target) < Abs(dates[best] - target)
         THEN closestFrom(dates, target, i + 1, i)
         ELSE closestFrom(dates, target, i + 1, best)

\* navigateToDate without the search: closestIndex stays at the first event.
navigateToDateFirst(dates, target) == 1

\* Timeline.navigateToDate on a timeline that has events: the index of the
\* first event at the least distance from the target date.
navigateToDate(dates, target) == closestFrom(dates, target, 1, 1)

\* The article records NewsIntegration holds: publishedAt always (an article
\* without it is not kept), and a date field (the same day) only if the
\* source data had one; the built-in articles have none (0).
Articles ==
    {r \in [publishedAt : {4, 5}, date : {0, 4, 5}] :
        r.date = 0 \/ r.date = r.publishedAt}

\* NewsIntegration.selectArticle: emit('news:articleSelected', article).  The
\* route looks the timeline up and, if article.date is set, calls
\* navigateToDate(article.date): on an empty timeline it throws (caught by
\* emit); otherwise goToEvent sets currentIndex and updateEventDisplay emits
\* timeline:dateChanged with the event's date, which the first route hands
\* to the map.
selectArticle(article) ==
    /\ lastEmit' = [ev |-> "news:articleSelected", a |-> article.publishedAt,
                    b |-> article.date]
    /\ IF /\ Invoked(events, "news:articleSelected") # <<>>
          /\ InRegistry("timeline")
          /\ article.date # 0
          /\ tlDates # <<>>
       THEN LET closestIndex == navigateToDate(tlDates, article.date)
            IN  /\ tlIndex' = closestIndex
                /\ IF Invoked(events, "timeline:dateChanged") # <<>> /\ InRegistry("map")
                   THEN /\ opacity' = filterByDate(opacity, locDate, tlDates[closestIndex])
                        /\ mapFilter' = tlDates[closestIndex]
                   ELSE UNCHANGED <<opacity, mapFilter>>
       ELSE UNCHANGED <<tlIndex, opacity, mapFilter>>
    /\ UNCHANGED <<appPc, idx, modules, isInitialized, missing, inst, attempts, inits, readyEmit,
                   tlLen, mapCalls, sentBefore, sentAfter, navs,
                   data, srcFailed, initThrew, tlDates>>
    /\ UNCHANGED <<locDate, satLocation, satIndex, nImages, rangeCalls>>
    /\ UNCHANGED <<busVars, lifeVars>>

\* DateUtils.isInRange with the bounds left out.
isInRangeExclusive(date, startDate, endDate) == date > startDate /\ date < endDate

\* DateUtils.isInRange: checkDate >= start && checkDate <= end.
isInRange(date, startDate, endDate) == date >= startDate /\ date <= endDate

\* InteractiveMap.filterByDateRange: without both bounds every marker goes
\* back to opacity 1; with them a marker whose location has a date gets 1
\* inside the range and 0.3 outside, and an undated one is left as it is.
filterByDateRange(op, dates, startDate, endDate) ==
    IF startDate = 0 \/ endDate = 0
    THEN [mk \in DOMAIN op |-> "full"]
    ELSE [mk \in DOMAIN op |->
            IF dates[mk] # 0
            THEN IF isInRange(dates[mk], startDate, endDate) THEN "full" ELSE "dim"
            ELSE op[mk]]

\* The module classes that define filterByDateRange.
HasFilterByDateRange(m) == m \in {"timeline", "map"}

\* The bounds a date filter is emitted with (0: not set).
RangeBounds == {0, 1, MaxDate - 1}

\* emit('filter:dateRange', startDate, endDate): the route calls
\* filterByDateRange on every registered module that has the method; the
\* timeline's only logs, the map's sets the markers' opacity.
emitDateRange(startDate, endDate) ==
    /\ lastEmit' = [ev |-> "filter:dateRange", a |-> startDate, b |-> endDate]
    /\ IF Invoked(events, "filter:dateRange") # <<>>
       THEN /\ rangeCalls' = {m \in ModuleNames : InRegistry(m) /\ HasFilterByDateRange(m)}
            /\ opacity' = IF InRegistry("map")
                          THEN filterByDateRange(opacity, locDate, startDate, endDate)
                          ELSE opacity
       ELSE UNCHANGED <<rangeCalls, opacity>>
    /\ UNCHANGED coordVars
    /\ UNCHANGED <<locDate, satLocation, satIndex, nImages>>
    /\ UNCHANGED <<busVars, lifeVars>>

RoutesNext ==
    \/ \E date \in DateSamples : emitDateChanged(date)
    \/ \E startDate, endDate \in RangeBounds : emitDateRange(startDate, endDate)
    \/ \E article \in Articles : selectArticle(article)
    \/ \E c \in CoordSamples : emitLocationSelected(c[1], c[2])

SpecRoutes == RoutesInit /\ [][RoutesNext]_vars

-----------------------------------------------------------------------------
(* Visibility, timers and destroy, on the initialized application *)

\* NewsIntegration.startAutoUpdate: setInterval, its id stored in
\* updateTimer over whatever id was there.
startAutoUpdate(t) == [timer |-> TRUE, n |-> t.n + 1]

\* NewsIntegration.stopAutoUpdate: clear the interval updateTimer names, if any.
stopAutoUpdate(t) == IF t.timer THEN [timer |-> FALSE, n |-> t.n - 1] ELSE t

NewsTimers == [timer |-> newsTimer, n |-> newsIntervals]

\* The module classes that define pause() and resume().
HasPause(m) == m \in {"news", "timeline"}
HasResume(m) == m \in {"news"}

\* What Timeline.play and Timeline.pause emit on the bus (no route listens).
PlayStarted == [ev |-> "timeline:playStarted", a |-> 0, b |-> 0]
PlayPaused == [ev |-> "timeline:playPaused", a |-> 0, b |-> 0]

\* A play that starts an interval whatever isPlaying says.
playIgnoredNever(playing) == FALSE

\* The first line of Timeline.play and of playTimelapse:
\* if (this.isPlaying) return.
playIgnored(playing) == playing

\* clearInterval(this.playInterval), when playInterval holds an id: of the
\* n live intervals, the recorded one is cleared.
cleared(n) == IF n > 0 THEN n - 1 ELSE 0

\* The ghost window of play notifications after one more.
noted(notes, n) == IF Len(notes) < 2 THEN Append(notes, n) ELSE <<notes[2], n>>

\* The relay's test: m is registered and typeof m.pause / m.resume is 'function'.
Paused(m) == InRegistry(m) /\ HasPause(m)
Resumed(m) == InRegistry(m) /\ HasResume(m)

\* The application after init(), as the page can be: in front or in a
\* background tab; the news module, if registered, has started its
\* auto-update unless its init failed; the timeline, if registered, shows
\* the first of two events.
LifeInit ==
    /\ missing \in {{}, {"timeline"}, {"news"}, {"satellite"}}
    /\ appPc = "ready"
    /\ idx = Len(ModuleOrder) + 1
    /\ modules = Registered(missing, 1)
    /\ isInitialized = TRUE
    /\ inst = [m \in ModuleNames |-> IF m \in missing THEN "ctorThrew" ELSE "resolved"]
    /\ attempts = [m \in ModuleNames |-> 1]
    /\ inits = 1
    /\ readyEmit = <<ReadySeen(TRUE, TRUE, TRUE)>>
    /\ data = [m \in ModuleNames |-> IF m \in missing THEN "none" ELSE "loaded"]
    /\ srcFailed = {}
    /\ initThrew = {}
    /\ tlDates = <<2, 6>>
    /\ tlLen = Len(tlDates)
    /\ tlIndex = 1
    /\ mapFilter = 0
    /\ mapCalls = 0
    /\ sentBefore = 0
    /\ sentAfter = 0
    /\ navs = 0
    /\ events = subscribeAll([e \in EventNames \cup AppEvents |-> [has |-> FALSE, cbs |-> <<>>]],
                             RouteTable, 1, 1)
    /\ nextRid = Len(RouteTable) + 1
    /\ stack = <<>>
    /\ exc = FALSE
    /\ onLog = <<>>
    /\ removed = {}
    /\ fired = [i \in 1..MaxRegs |-> 0]
    /\ nEmits = 0
    /\ locDate = [mk \in Markers |-> 0]
    /\ opacity = [mk \in Markers |-> "full"]
    /\ lastEmit = [ev |-> "none", a |-> 0, b |-> 0]
    /\ satLocation = "gaza-strip"
    /\ nImages = (IF "satellite" \in missing THEN 0 ELSE MaxFrames)
    /\ satIndex = 0
    /\ rangeCalls = {}
    /\ unloadLog = <<>>
    /\ playNotes = <<>>
    /\ hidden \in BOOLEAN
    /\ newsTimer \in (IF "news" \in missing THEN {FALSE} ELSE BOOLEAN)
    /\ newsIntervals = (IF newsTimer THEN 1 ELSE 0)
    /\ tlPlaying = FALSE
    /\ tlInterval = 0
    /\ satPlaying = FALSE
    /\ satInterval = 0
    /\ trip = "none"
    /\ snap = Timers
    /\ destroyed = [m \in ModuleNames |-> 0]
    /\ lastTick = "none"

\* handleVisibilityChange: the page went to the background or came back.
\* Hidden: pause() on every registered module that has it (news:
\* stopAutoUpdate; timeline: pause).  Visible: resume() on every registered
\* module that has it (news: startAutoUpdate).
handleVisibilityChange ==
    /\ appPc \in {"awaitInit", "ready"}
    /\ hidden' = ~hidden
    /\ IF hidden'
       THEN /\ newsTimer' = IF Paused("news") THEN stopAutoUpdate(NewsTimers).timer ELSE newsTimer
            /\ newsIntervals' = IF Paused("news") THEN stopAutoUpdate(NewsTimers).n ELSE newsIntervals
            /\ tlPlaying' = IF Paused("timeline") THEN FALSE ELSE tlPlaying
            /\ tlInterval' = IF Paused("timeline") THEN cleared(tlInterval) ELSE tlInterval
            /\ satPlaying' = IF Paused("satellite") THEN FALSE ELSE satPlaying
            /\ satInterval' = IF Paused("satellite") THEN cleared(satInterval) ELSE satInterval
            /\ lastEmit' = IF Paused("timeline") THEN PlayPaused ELSE lastEmit
            /\ playNotes' = IF Paused("timeline") THEN noted(playNotes, "paused") ELSE playNotes
            /\ trip' = "hidden"
            /\ snap' = Timers
            /\ UNCHANGED destroyed
       ELSE /\ newsTimer' = IF Resumed("news") THEN startAutoUpdate(NewsTimers).timer ELSE newsTimer
            /\ newsIntervals' = IF Resumed("news") THEN startAutoUpdate(NewsTimers).n ELSE newsIntervals
            /\ tlPlaying' = IF Resumed("timeline") THEN TRUE ELSE tlPlaying
            /\ tlInterval' = IF Resumed("timeline") THEN tlInterval + 1 ELSE tlInterval
            /\ satPlaying' = IF Resumed("satellite") THEN TRUE ELSE satPlaying
            /\ satInterval' = IF Resumed("satellite") THEN satInterval + 1 ELSE satInterval
            /\ UNCHANGED <<snap, lastEmit, playNotes>>
            /\ trip' = IF trip = "hidden" THEN "round" ELSE "none"
            /\ destroyed' = [m \in ModuleNames |-> IF Resumed(m) THEN 0 ELSE destroyed[m]]
    /\ UNCHANGED <<lastTick, unloadLog>>
    /\ UNCHANGED <<busVars, coordVars, locDate, opacity, satLocation, satIndex, nImages, rangeCalls>>

\* Ghost bookkeeping of an operation on module m that is neither a relay
\* nor a destroy: the relay trip is over and m is in use again.
used(m) ==
    /\ trip' = "none"
    /\ destroyed' = [destroyed EXCEPT ![m] = 0]
    /\ UNCHANGED <<hidden, snap, unloadLog>>

\* Timeline.play: nothing if already playing, else a 2 s interval and
\* timeline:playStarted.
play ==
    /\ InRegistry("timeline")
    /\ ~hidden
    /\ IF playIgnored(tlPlaying)
       THEN UNCHANGED <<tlPlaying, tlInterval, lastEmit, playNotes>>
       ELSE /\ tlPlaying' = TRUE
            /\ tlInterval' = tlInterval + 1
            /\ lastEmit' = PlayStarted
            /\ playNotes' = noted(playNotes, "started")
    /\ used("timeline")
    /\ UNCHANGED <<newsTimer, newsIntervals, satPlaying, satInterval, lastTick>>
    /\ UNCHANGED <<busVars, coordVars, locDate, opacity, satLocation, satIndex, nImages, rangeCalls>>

\* Timeline.pause: isPlaying = false, the interval cleared if there is one,
\* timeline:playPaused.
pause ==
    /\ InRegistry("timeline")
    /\ ~hidden
    /\ tlPlaying' = FALSE
    /\ tlInterval' = cleared(tlInterval)
    /\ lastEmit' = PlayPaused
    /\ playNotes' = noted(playNotes, "paused")
    /\ used("timeline")
    /\ UNCHANGED <<newsTimer, newsIntervals, satPlaying, satInterval, lastTick>>
    /\ UNCHANGED <<busVars, coordVars, locDate, opacity, satLocation, satIndex, nImages, rangeCalls>>

\* The test of the playback tick written with <= for <.
hasNextInclusive(i, len) == i <= len

\* The test of the playback tick, currentIndex < events.length - 1, on the
\* 1-based index: there is an event after the one shown.
hasNext(i, len) == i < len

\* The playback interval fires: nextEvent (goToEvent(currentIndex + 1),
\* which ignores an index out of range and whose updateEventDisplay emits
\* timeline:dateChanged to the map route), or pause at the last event.
timelineTick ==
    /\ tlInterval > 0
    /\ IF hasNext(tlIndex, tlLen)
       THEN /\ IF tlIndex + 1 \in 1..tlLen
               THEN /\ tlIndex' = tlIndex + 1
                    /\ lastEmit' = [ev |-> "timeline:dateChanged",
                                    a |-> tlDates[tlIndex + 1], b |-> 0]
                    /\ IF Invoked(events, "timeline:dateChanged") # <<>> /\ InRegistry("map")
                       THEN /\ opacity' = filterByDate(opacity, locDate, tlDates[tlIndex + 1])
                            /\ mapFilter' = tlDates[tlIndex + 1]
                       ELSE UNCHANGED <<opacity, mapFilter>>
               ELSE UNCHANGED <<tlIndex, lastEmit, opacity, mapFilter>>
            /\ UNCHANGED <<tlPlaying, tlInterval, playNotes>>
       ELSE /\ tlPlaying' = FALSE
            /\ tlInterval' = cleared(tlInterval)
            /\ lastEmit' = PlayPaused
            /\ playNotes' = noted(playNotes, "paused")
            /\ UNCHANGED <<tlIndex, opacity, mapFilter>>
    /\ lastTick' = "timeline"
    /\ trip' = "none"
    /\ UNCHANGED <<hidden, snap, unloadLog, destroyed, newsTimer, newsIntervals, satPlaying, satInterval>>
    /\ UNCHANGED <<busVars, appPc, idx, modules, isInitialized, missing, inst, attempts, inits, readyEmit,
                   tlLen, mapCalls, sentBefore, sentAfter, navs, data,
                   srcFailed, initThrew, tlDates>>
    /\ UNCHANGED <<locDate, satLocation, satIndex, nImages, rangeCalls>>

\* SatelliteImagery.playTimelapse: nothing if playing or with one image.
playTimelapse ==
    /\ InRegistry("satellite")
    /\ ~hidden
    /\ IF playIgnored(satPlaying) \/ nImages <= 1
       THEN UNCHANGED <<satPlaying, satInterval>>
       ELSE /\ satPlaying' = TRUE
            /\ satInterval' = satInterval + 1
    /\ playNotes' = playNotes
    /\ used("satellite")
    /\ UNCHANGED <<newsTimer, newsIntervals, tlPlaying, tlInterval, lastTick>>
    /\ UNCHANGED <<busVars, coordVars, sideVars>>

\* SatelliteImagery.pauseTimelapse: isPlaying = false, the interval
\* cleared if there is one.
pauseTimelapse ==
    /\ InRegistry("satellite")
    /\ ~hidden
    /\ satPlaying' = FALSE
    /\ satInterval' = cleared(satInterval)
    /\ playNotes' = playNotes
    /\ used("satellite")
    /\ UNCHANGED <<newsTimer, newsIntervals, tlPlaying, tlInterval, lastTick>>
    /\ UNCHANGED <<busVars, coordVars, sideVars>>

\* SatelliteImagery.updateTimelapse with timelapseIndex i and n images:
\* satellite:frameChanged is emitted when currentImages[i] is defined.
frameChanged(i, n) ==
    IF 0 <= i /\ i < n
    THEN [ev |-> "satellite:frameChanged", a |-> i, b |-> n]
    ELSE lastEmit

\* The time-lapse interval fires: next frame, or back to the first.
satTick ==
    /\ satInterval > 0
    /\ satIndex' = IF satIndex < nImages - 1 THEN satIndex + 1 ELSE 0
    /\ lastEmit' = frameChanged(satIndex', nImages)
    /\ lastTick' = "satellite"
    /\ UNCHANGED <<nImages, playNotes>>
    /\ trip' = "none"
    /\ UNCHANGED <<hidden, snap, unloadLog, destroyed, timerVars>>
    /\ UNCHANGED <<busVars, coordVars, locDate, opacity, satLocation, rangeCalls>>

\* The location selector changes: changeLocation of a known region sets
\* currentLocation, resets timelapseIndex and loads the region's images of
\* the last thirty days.
changeLocation(location) ==
    /\ InRegistry("satellite")
    /\ ~hidden
    /\ IF location \in LocationKeys
       THEN /\ satLocation' = location
            /\ satIndex' = 0
            /\ nImages' \in DefaultFrames
            /\ lastEmit' = [ev |-> "satellite:locationChanged", a |-> 0, b |-> 0]
       ELSE UNCHANGED <<satLocation, satIndex, nImages, lastEmit>>
    /\ used("satellite")
    /\ UNCHANGED <<timerVars, lastTick, playNotes>>
    /\ UNCHANGED <<busVars, coordVars, locDate, opacity, rangeCalls>>

\* The load button: loadImageryForDateRange loads the images of the
\* selected date range for the current location (n of them, none when the
\* range is empty); timelapseIndex is left as it is.
loadImageryForDateRange(n) ==
    /\ InRegistry("satellite")
    /\ ~hidden
    /\ nImages' = n
    /\ used("satellite")
    /\ UNCHANGED <<timerVars, lastTick, playNotes>>
    /\ UNCHANGED <<busVars, coordVars, locDate, opacity, lastEmit, satLocation,
                   satIndex, rangeCalls>>

\* The progress slider: goToTimelapseFrame(index).
goToTimelapseFrame(index) ==
    /\ InRegistry("satellite")
    /\ ~hidden
    /\ IF index >= 0 /\ index < nImages
       THEN /\ satIndex' = index
            /\ lastEmit' = frameChanged(index, nImages)
       ELSE UNCHANGED <<satIndex, lastEmit>>
    /\ used("satellite")
    /\ UNCHANGED <<timerVars, lastTick, playNotes>>
    /\ UNCHANGED <<busVars, coordVars, locDate, opacity, satLocation, nImages, rangeCalls>>

\* The right-arrow key: nextFrame.
nextFrame ==
    /\ InRegistry("satellite")
    /\ ~hidden
    /\ IF satIndex < nImages - 1
       THEN /\ satIndex' = satIndex + 1
            /\ lastEmit' = frameChanged(satIndex + 1, nImages)
       ELSE UNCHANGED <<satIndex, lastEmit>>
    /\ used("satellite")
    /\ UNCHANGED <<timerVars, lastTick, playNotes>>
    /\ UNCHANGED <<busVars, coordVars, locDate, opacity, satLocation, nImages, rangeCalls>>

\* The left-arrow key: previousFrame.
previousFrame ==
    /\ InRegistry("satellite")
    /\ ~hidden
    /\ IF satIndex > 0
       THEN /\ satIndex' = satIndex - 1
            /\ lastEmit' = frameChanged(satIndex - 1, nImages)
       ELSE UNCHANGED <<satIndex, lastEmit>>
    /\ used("satellite")
    /\ UNCHANGED <<timerVars, lastTick, playNotes>>
    /\ UNCHANGED <<busVars, coordVars, locDate, opacity, satLocation, nImages, rangeCalls>>

\* An auto-update interval of the news module fires: loadNews.
newsTick ==
    /\ newsIntervals > 0
    /\ lastTick' = "news"
    /\ playNotes' = playNotes
    /\ trip' = "none"
    /\ UNCHANGED <<hidden, snap, unloadLog, destroyed, timerVars>>
    /\ UNCHANGED <<busVars, coordVars, sideVars>>

\* destroy() of module m: news stops its auto-update, the timeline pauses,
\* the satellite module pauses its time-lapse; the map and the sources
\* module hold no timer.
destroy(m) ==
    /\ InRegistry(m)
    /\ destroyed[m] < MaxDestroy
    /\ newsTimer' = IF m = "news" THEN stopAutoUpdate(NewsTimers).timer ELSE newsTimer
    /\ newsIntervals' = IF m = "news" THEN stopAutoUpdate(NewsTimers).n ELSE newsIntervals
    /\ tlPlaying' = IF m = "timeline" THEN FALSE ELSE tlPlaying
    /\ tlInterval' = IF m = "timeline" THEN cleared(tlInterval) ELSE tlInterval
    /\ satPlaying' = IF m = "satellite" THEN FALSE ELSE satPlaying
    /\ satInterval' = IF m = "satellite" THEN cleared(satInterval) ELSE satInterval
    /\ destroyed' = [destroyed EXCEPT ![m] = @ + 1]
    /\ lastEmit' = IF m = "timeline" THEN PlayPaused ELSE lastEmit
    /\ playNotes' = IF m = "timeline" THEN noted(playNotes, "paused") ELSE playNotes
    /\ lastTick' = IF lastTick = m THEN "none" ELSE lastTick
    /\ trip' = "none"
    /\ UNCHANGED <<hidden, snap, unloadLog>>
    /\ UNCHANGED <<busVars, coordVars, locDate, opacity, satLocation, satIndex, nImages, rangeCalls>>

\* A relay that walks the descriptors instead of the registry.
forEachOrderAllDescriptors(reg) == ModuleOrder

\* Map.prototype.forEach on the registry: the values in insertion order.
forEachOrder(reg) == reg

\* handleBeforeUnload: destroy() on every module of the registry, in
\* forEach order (every module class defines destroy).
handleBeforeUnload ==
    /\ appPc \in {"awaitInit", "ready"}
    /\ Len(unloadLog) < MaxUnloads
    /\ LET order == forEachOrder(modules)
           hit(m) == \E i \in DOMAIN order : order[i] = m
       IN  /\ unloadLog' = Append(unloadLog, order)
           /\ newsTimer' = IF hit("news") THEN stopAutoUpdate(NewsTimers).timer ELSE newsTimer
           /\ newsIntervals' = IF hit("news") THEN stopAutoUpdate(NewsTimers).n ELSE newsIntervals
           /\ tlPlaying' = IF hit("timeline") THEN FALSE ELSE tlPlaying
           /\ tlInterval' = IF hit("timeline") THEN cleared(tlInterval) ELSE tlInterval
           /\ satPlaying' = IF hit("satellite") THEN FALSE ELSE satPlaying
           /\ satInterval' = IF hit("satellite") THEN cleared(satInterval) ELSE satInterval
           /\ lastEmit' = IF hit("timeline") THEN PlayPaused ELSE lastEmit
           /\ playNotes' = IF hit("timeline") THEN noted(playNotes, "paused") ELSE playNotes
           /\ destroyed' = [m \in ModuleNames |->
                                IF hit(m) /\ destroyed[m] < MaxDestroy
                                THEN destroyed[m] + 1 ELSE destroyed[m]]
           /\ lastTick' = IF hit(lastTick) THEN "none" ELSE lastTick
    /\ trip' = "none"
    /\ UNCHANGED <<hidden, snap>>
    /\ UNCHANGED <<busVars, coordVars, locDate, opacity, satLocation, satIndex, nImages, rangeCalls>>

\* The live intervals of module m.
Intervals(m) ==
    CASE m = "news" -> newsIntervals
      [] m = "timeline" -> tlInterval
      [] m = "satellite" -> satInterval
      [] OTHER -> 0

LifeNext ==
    \/ handleVisibilityChange
    \/ play
    \/ pause
    \/ timelineTick
    \/ playTimelapse
    \/ pauseTimelapse
    \/ satTick
    \/ newsTick
    \/ \E m \in {"news", "timeline", "satellite", "map"} : destroy(m)
    \/ handleBeforeUnload

SpecLife == LifeInit /\ [][LifeNext]_vars

\* The event lists the timeline can hold: none, or up to the three of the
\* fallback data, on consecutive days.
PlayData == {[i \in 1..n |-> i] : n \in 0..FallbackEvents}

\* The initialized application in front, the timeline registered and not
\* playing, on any of its events (on index 0 when it has none).
PlayInit ==
    /\ missing \in {{}, {"map"}}
    /\ appPc = "ready"
    /\ idx = Len(ModuleOrder) + 1
    /\ modules = Registered(missing, 1)
    /\ isInitialized = TRUE
    /\ inst = [m \in ModuleNames |-> IF m \in missing THEN "ctorThrew" ELSE "resolved"]
    /\ attempts = [m \in ModuleNames |-> 1]
    /\ inits = 1
    /\ readyEmit = <<ReadySeen(TRUE, TRUE, TRUE)>>
    /\ data = [m \in ModuleNames |-> IF m \in missing THEN "none" ELSE "loaded"]
    /\ srcFailed = {}
    /\ initThrew = {}
    /\ tlDates \in PlayData
    /\ tlLen = Len(tlDates)
    /\ tlIndex \in {1} \cup (1..tlLen)
    /\ mapFilter = 0
    /\ mapCalls = 0
    /\ sentBefore = 0
    /\ sentAfter = 0
    /\ navs = 0
    /\ events = subscribeAll([e \in EventNames \cup AppEvents |-> [has |-> FALSE, cbs |-> <<>>]],
                             RouteTable, 1, 1)
    /\ nextRid = Len(RouteTable) + 1
    /\ stack = <<>>
    /\ exc = FALSE
    /\ onLog = <<>>
    /\ removed = {}
    /\ fired = [i \in 1..MaxRegs |-> 0]
    /\ nEmits = 0
    /\ locDate \in [Markers -> LocDates]
    /\ opacity = [mk \in Markers |-> "full"]
    /\ lastEmit = [ev |-> "none", a |-> 0, b |-> 0]
    /\ satLocation = "gaza-strip"
    /\ nImages = MaxFrames
    /\ satIndex = 0
    /\ rangeCalls = {}
    /\ unloadLog = <<>>
    /\ playNotes = <<>>
    /\ hidden = FALSE
    /\ newsTimer = TRUE
    /\ newsIntervals = 1
    /\ tlPlaying = FALSE
    /\ tlInterval = 0
    /\ satPlaying = FALSE
    /\ satInterval = 0
    /\ trip = "none"
    /\ snap = Timers
    /\ destroyed = [m \in ModuleNames |-> 0]
    /\ lastTick = "none"

\* play() and then nothing but the playback interval, which fires as long
\* as it is set.
PlayNext ==
    \/ play
    \/ timelineTick

SpecPlay == PlayInit /\ [][PlayNext]_vars /\ WF_vars(timelineTick)

\* The satellite viewer of the initialized application, in front.
SatInit ==
    /\ LifeInit
    /\ missing = {}
    /\ ~hidden
    /\ newsTimer

SatNext ==
    \/ \E location \in LocationKeys \cup {""} : changeLocation(location)
    \/ \E n \in 0..MaxFrames : loadImageryForDateRange(n)
    \/ \E index \in -1..MaxFrames : goToTimelapseFrame(index)
    \/ nextFrame
    \/ previousFrame
    \/ playTimelapse
    \/ pauseTimelapse
    \/ satTick

SpecSat == SatInit /\ [][SatNext]_vars

\* The bootstrap with the page going to the background and coming back
\* while it runs: init installs the visibilitychange listener before it
\* initializes the modules (setupEventListeners), so the relay can run at
\* every await of the loop.
BootInit ==
    /\ CoordNew
    /\ SideNew
    /\ LifeNew
    /\ missing \in SUBSET {"timeline", "news"}
    /\ BusNew

BootNext ==
    \/ init
    \/ construct
    \/ \E fail \in {"none", "late"} : moduleInitSettled(fail, TRUE, MaxEvents)
    \/ initializeModules
    \/ setupModuleCommunication
    \/ appReady
    \/ handleVisibilityChange
    \/ newsTick

SpecBoot == BootInit /\ [][BootNext]_vars

-----------------------------------------------------------------------------
(* Properties of the EventBus *)

\* The emit on top of the stack has visited every index and is about to return.
Finished == InEmit /\ Top(stack).k = Top(stack).len

RidsOf(seq) == [i \in DOMAIN seq |-> seq[i].rid]
RidSet(seq) == {seq[i].rid : i \in DOMAIN seq}
Delivery(seq) == [i \in DOMAIN seq |->
                    [rid |-> seq[i].rid, cb |-> seq[i].cb, arg |-> seq[i].arg]]
PosOf(seq, rid) == CHOOSE i \in DOMAIN seq : seq[i].rid = rid

\* An exception has left the outermost emit, or reached a callback that called emit.
Escaped ==
    exc /\ (stack = <<>> \/ (Top(stack).kind = "call" /\ Top(stack).pc = "ret"))

\* C1: when an emit returns, the registrations invoked by it are exactly the
\* registrations that were in the event's array when it started, each once and in
\* registration order, whatever its callbacks subscribed or unsubscribed meanwhile.
C1_EmitStableUnderMutation ==
    Finished => RidsOf(Top(stack).called) = RidsOf(Top(stack).snap)

\* The on() calls made for `event` and not removed since, in call order, as
\* deliveries of `arg`.
LiveRids(event) ==
    SelectSeq([i \in 1..Len(onLog) |-> i],
              LAMBDA r : onLog[r].ev = event /\ r \notin removed)
ExpectedDelivery(event, arg) ==
    [i \in DOMAIN LiveRids(event) |->
        [rid |-> LiveRids(event)[i], cb |-> onLog[LiveRids(event)[i]].cb, arg |-> arg]]

\* C2: an emit during which the bus was not changed has invoked, when it returns,
\* exactly the on() calls made for its event and not removed before, one invocation
\* per call (no deduplication), in call order, each with the emitted argument, and
\* nothing else.
C2_EmitDeliversInOrder ==
    (Finished /\ ~Top(stack).mut) =>
        Delivery(Top(stack).called) = ExpectedDelivery(Top(stack).ev, Top(stack).arg)

\* C2 witness: a callback subscribed twice to E was delivered twice by an emit
\* that nothing changed, while F has a subscriber of its own.
C2_Witness ==
    /\ Finished
    /\ ~Top(stack).mut
    /\ Top(stack).ev = "E"
    /\ Len(Top(stack).called) = 2
    /\ Top(stack).called[1].cb = Top(stack).called[2].cb
    /\ events["F"].cbs # <<>>

\* C3: when an emit returns, every registration that stood after a throwing
\* callback in the event's array at the start of the emit has been invoked by that
\* emit; and no exception ever leaves emit.
C3_ThrowDoesNotStopDelivery ==
    /\ ~Escaped
    /\ Finished =>
         \A p \in DOMAIN Top(stack).called :
            (Top(stack).called[p].threw
                /\ Top(stack).called[p].rid \in RidSet(Top(stack).snap)) =>
            \A q \in DOMAIN Top(stack).snap :
                q > PosOf(Top(stack).snap, Top(stack).called[p].rid) =>
                    Top(stack).snap[q].rid \in RidSet(Top(stack).called)

\* C4: a once() subscription invokes its callback at most once in total, and has
\* invoked it by the end of the first emit of its event that started after once().
C4_OnceInvokedExactlyOnce ==
    /\ \A w \in DOMAIN fired : fired[w] <= 1
    /\ (Finished /\ Len(stack) = 1) =>
         \A i \in DOMAIN Top(stack).snap :
            Top(stack).snap[i].cb.wid > 0 => fired[Top(stack).snap[i].cb.wid] = 1

\* C5: when an emit returns, no once() subscription that it invoked is still in the
\* event's array.
C5_OnceRemovedAfterInvocation ==
    Finished =>
        \A p \in DOMAIN Top(stack).called :
            Top(stack).called[p].cb.wid > 0 =>
                Top(stack).called[p].rid \notin RidSet(events[Top(stack).ev].cbs)

\* What off(event, cb) must leave behind: without a registration of cb for the
\* event, the map as it was; otherwise the event's array without its earliest
\* entry for cb, the other entries in their order, the other events untouched.
OffExpected(evs, event, cb) ==
    LET L == evs[event].cbs
        I == {i \in DOMAIN L : L[i].cb = cb}
    IN  IF I = {} THEN evs
        ELSE LET m == CHOOSE i \in I : \A j \in I : i <= j
             IN  [e \in DOMAIN evs |->
                    IF e # event THEN evs[e]
                    ELSE [has |-> evs[e].has,
                          cbs |-> [j \in 1..(Len(L) - 1) |->
                                     IF j < m THEN L[j] ELSE L[j + 1]]]]

\* Every callback that has been passed to on(), and one that never was.
KnownCallbacks == {onLog[i].cb : i \in DOMAIN onLog} \cup {Fn("a")}

\* C6: in every state of the bus, off(event, cb) for any event and callback
\* removes exactly the earliest registration of cb for the event and changes
\* nothing else, and changes nothing at all when cb is not registered for it.
C6_OffRemovesEarliestOnly ==
    \A e \in EventNames : \A cb \in KnownCallbacks :
        offMap(events, e, cb) = OffExpected(events, e, cb)

\* C6 witness: off has removed the earlier of two registrations of one callback
\* for an event; the later one is still subscribed, and so is another event's.
C6_Witness ==
    /\ Idle
    /\ \E r \in removed :
         /\ onLog[r].cb.wid = 0
         /\ \E i \in DOMAIN events[onLog[r].ev].cbs :
               /\ events[onLog[r].ev].cbs[i].cb = onLog[r].cb
               /\ events[onLog[r].ev].cbs[i].rid > r
         /\ \E e \in EventNames : e # onLog[r].ev /\ events[e].cbs # <<>>

\* C7: emits are strictly nested: an emit that is not the innermost one is
\* suspended inside the callback it invoked last, and that callback is waiting for
\* the emit it called; so between two callbacks of an emit only callbacks of
\* emits made by the first of them run, and they have all returned before the
\* second starts.
C7_EmitsDoNotInterleave ==
    \A i \in 1..(Len(stack) - 1) :
        /\ stack[i].kind = "emit" =>
              /\ stack[i + 1].kind = "call"
              /\ stack[i].called # <<>>
              /\ stack[i + 1].cb = stack[i].called[Len(stack[i].called)].cb
        /\ stack[i].kind = "call" =>
              /\ stack[i].pc = "ret"
              /\ stack[i + 1].kind = "emit"

\* C7 witness: an emit made from inside a callback of another emit is delivering
\* while the outer emit still has a callback to invoke.
C7_Witness ==
    /\ Len(stack) >= 4
    /\ stack[1].kind = "emit"
    /\ stack[1].k < stack[1].len
    /\ stack[3].kind = "emit"
    /\ stack[3].called # <<>>
    /\ stack[4].kind = "call"

-----------------------------------------------------------------------------
(* Properties of the coordinator's bootstrap *)

Settled(m) == inst[m] \in {"ctorThrew", "resolved", "rejected"}
Failed(m) == inst[m] \in {"ctorThrew", "rejected"}
LoopDone == appPc \in {"wire", "finish", "ready"}

RECURSIVE ResolvedFrom(_)
\* the descriptors from position i on whose init resolved, in descriptor order
ResolvedFrom(i) ==
    IF i > Len(ModuleOrder) THEN <<>>
    ELSE IF inst[ModuleOrder[i]] = "resolved"
         THEN <<ModuleOrder[i]>> \o ResolvedFrom(i + 1)
         ELSE ResolvedFrom(i + 1)

\* C8: bootstrap failure isolation.  In every state the registry holds, in
\* descriptor order, exactly the modules whose constructor returned and
\* whose init resolved; a module whose constructor threw or whose init
\* rejected is not in the registry and its constructor is never called
\* again; and once initializeModules has returned every descriptor has been
\* attempted exactly once and has settled, whatever failed before it.
C8_BootstrapFailureIsolation ==
    /\ modules = ResolvedFrom(1)
    /\ \A m \in ModuleNames : attempts[m] <= 1
    /\ \A m \in ModuleNames : Failed(m) => ~InRegistry(m)
    /\ LoopDone => \A m \in ModuleNames : attempts[m] = 1 /\ Settled(m)

\* init is over, the map's init rejected and the news container is missing,
\* and the modules before, between and after them are registered.
C8_Witness ==
    /\ appPc = "ready"
    /\ inst["map"] = "rejected"
    /\ inst["news"] = "ctorThrew"
    /\ modules = <<"timeline", "satellite", "sources">>

\* C9: serialized bootstrap.  At most one module is between the start and
\* the settlement of its init, and the constructor of a descriptor has not
\* been called while the init of an earlier descriptor has not settled.
C9_SerializedBootstrap ==
    /\ Cardinality({m \in ModuleNames : inst[m] = "initializing"}) <= 1
    /\ \A i, j \in DOMAIN ModuleOrder :
           (i < j /\ attempts[ModuleOrder[j]] > 0) => Settled(ModuleOrder[i])

\* The satellite module's init is pending, the three descriptors before it
\* have settled (one of them by rejecting) and the one after it is untouched.
C9_Witness ==
    /\ appPc = "awaitInit"
    /\ inst["satellite"] = "initializing"
    /\ inst["timeline"] = "resolved"
    /\ inst["map"] = "rejected"
    /\ Settled("news")
    /\ attempts["sources"] = 0

Wired == \E e \in RouteEvents : events[e].has

\* C10: routes are installed only after bootstrap.  No event of the routing
\* table has a subscription until every descriptor has been attempted and
\* has settled; the map's filterByDate has been called by the route once per
\* timeline:dateChanged emitted after initializeModules returned (and never
\* if the map is not registered), so what was emitted during bootstrap
\* reached no route and was not replayed when the routes were installed.
C10_RoutesInstalledAfterBootstrap ==
    /\ Wired => \A m \in ModuleNames : attempts[m] = 1 /\ Settled(m)
    /\ Bootstrapping => ~Wired
    /\ mapCalls = (IF InRegistry("map") THEN sentAfter ELSE 0)
    /\ (mapCalls = 0) = (mapFilter = 0)

\* init is over and the routes are installed; the timeline emitted
\* timeline:dateChanged during bootstrap (its first render, and a user
\* navigation while a later module was loading), the map is registered, and
\* its filterByDate was never called.
C10_Witness ==
    /\ appPc = "ready"
    /\ events["timeline:dateChanged"].has
    /\ sentBefore >= 2
    /\ sentAfter = 0
    /\ InRegistry("map")
    /\ mapCalls = 0
    /\ mapFilter = 0

\* C11: a missing region is fatal at construction.  For each of the five
\* module classes, when its container is missing from the page, the
\* constructor call ends by throwing, init is never started on the instance
\* (it is never pending, resolved or rejected) and the registry never holds
\* the name.
C11_MissingRegionFatal ==
    \A m \in missing :
        /\ inst[m] \in {"none", "ctorThrew"}
        /\ attempts[m] > 0 => inst[m] = "ctorThrew"
        /\ ~InRegistry(m)

\* Every region is missing: init is over, the five constructors were called
\* and threw, and the registry is empty.
C11_Witness ==
    /\ missing = ModuleNames
    /\ appPc = "ready"
    /\ \A m \in ModuleNames : attempts[m] = 1 /\ inst[m] = "ctorThrew"
    /\ modules = <<>>

\* C12: fallback on data failure.  For every module whose data source
\* failed during init (and whose init met no other error), init has
\* resolved, the module is registered, and the data it holds is its
\* built-in fallback dataset.
C12_FallbackOnDataFailure ==
    \A m \in srcFailed \ initThrew :
        /\ inst[m] = "resolved"
        /\ InRegistry(m)
        /\ data[m] = "fallback"

\* C13: timeline-to-map route.  When timeline:dateChanged was the last event
\* emitted, with date D, and the map is registered, the markers at full
\* opacity are exactly those whose location has a date within WindowDays of
\* D (a difference of exactly WindowDays included); every other marker is
\* dimmed.
C13_DateChangedPartitionsMarkers ==
    (lastEmit.ev = "timeline:dateChanged" /\ InRegistry("map")) =>
        \A mk \in Markers :
            (opacity[mk] = "full") =
                (locDate[mk] # 0 /\ Abs(lastEmit.a - locDate[mk]) <= WindowDays)

\* C14: map-to-satellite route.  In every emit of map:locationSelected with
\* the satellite module registered: for every named region whose bounds hold
\* the location's coordinates, the satellite module's currentLocation is
\* that region afterwards; and when no region holds them, currentLocation
\* and timelapseIndex are what they were.
C14_LocationSelectedSwitchesRegion ==
    [][(lastEmit'.ev = "map:locationSelected" /\ InRegistry("satellite")) =>
          /\ \A i \in DOMAIN locations :
                InBounds(lastEmit'.a, lastEmit'.b, locations[i]) =>
                    satLocation' = locations[i].key
          /\ (\A i \in DOMAIN locations :
                ~InBounds(lastEmit'.a, lastEmit'.b, locations[i])) =>
                    (satLocation' = satLocation /\ satIndex' = satIndex)]_vars

\* C15: news-to-timeline route.  In every selectArticle, with the timeline
\* registered and holding events, the timeline's current index afterwards is
\* that of an event at the least distance from the article's date, the date
\* it was published at.
C15_ArticleSelectedMovesTimeline ==
    [][(lastEmit'.ev = "news:articleSelected" /\ InRegistry("timeline")
            /\ tlDates # <<>>) =>
          \A j \in DOMAIN tlDates :
              Abs(tlDates[tlIndex'] - lastEmit'.a) <= Abs(tlDates[j] - lastEmit'.a)]_vars

\* C17: global date filter.  When filter:dateRange was the last event
\* emitted, with both bounds set, filterByDateRange was called on exactly
\* the registered modules that have it, and, the map being registered,
\* every marker whose location has a date is at full opacity if and only if
\* start <= date <= end, both bounds included.
C17_DateRangeFiltersMarkers ==
    (lastEmit.ev = "filter:dateRange" /\ lastEmit.a # 0 /\ lastEmit.b # 0) =>
        /\ rangeCalls = {m \in ModuleNames : InRegistry(m) /\ HasFilterByDateRange(m)}
        /\ InRegistry("map") =>
             \A mk \in Markers :
                locDate[mk] # 0 =>
                    ((opacity[mk] = "full") =
                        (lastEmit.a <= locDate[mk] /\ locDate[mk] <= lastEmit.b))

\* A range was emitted whose start is the date of one marker, which is at
\* full opacity, while the other marker, dated after its end, is dimmed;
\* the timeline and the map were both called.
C17_Witness ==
    /\ lastEmit.ev = "filter:dateRange"
    /\ lastEmit.a = 1
    /\ lastEmit.b = MaxDate - 1
    /\ locDate["m1"] = 1
    /\ locDate["m2"] = MaxDate
    /\ opacity["m1"] = "full"
    /\ opacity["m2"] = "dim"
    /\ rangeCalls = {"timeline", "map"}

\* The modules a routed event can act on.
RouteTargets(ev) ==
    CASE ev = "timeline:dateChanged" -> {"map"}
      [] ev = "map:locationSelected" -> {"satellite"}
      [] ev = "news:articleSelected" -> {"timeline"}
      [] ev = "filter:dateRange" -> {m \in ModuleNames : HasFilterByDateRange(m)}
      [] OTHER -> {}

\* C16: a route whose target is absent is skipped.  In every emit of a
\* routed event none of whose target modules is in the registry, no
\* module's state changes (markers, satellite location and frame, timeline
\* index and events), no filterByDateRange is called, and no exception is
\* left behind: the emit returns normally.
C16_AbsentTargetSkipped ==
    [][(lastEmit'.ev \in RouteEvents
            /\ \A m \in RouteTargets(lastEmit'.ev) : m \in missing) =>
          /\ UNCHANGED <<opacity, locDate, mapFilter, satLocation, satIndex, nImages,
                         tlIndex, tlDates, tlLen, modules>>
          /\ lastEmit'.ev = "filter:dateRange" => rangeCalls' = {}
          /\ exc' = FALSE /\ stack' = <<>>]_vars

\* timeline:dateChanged was emitted while the map is not registered, and a
\* marker dated more than WindowDays from the emitted date was not dimmed.
C16_Witness ==
    /\ "map" \in missing
    /\ ~InRegistry("map")
    /\ lastEmit.ev = "timeline:dateChanged"
    /\ \E mk \in Markers :
          /\ locDate[mk] # 0
          /\ Abs(lastEmit.a - locDate[mk]) > WindowDays
          /\ opacity[mk] = "full"


-----------------------------------------------------------------------------
(* Properties of the visibility relay and of destroy *)

\* C18: right after the coordinator relays a page-hidden visibility change,
\* no registered module has a live interval: news auto-update, timeline
\* playback and satellite time-lapse are all cleared.
C18_NoTimerAfterHidden ==
    trip = "hidden" =>
        \A m \in ModuleNames : InRegistry(m) => Intervals(m) = 0

\* C19: right after a page-hidden relay followed by a page-visible relay,
\* the timer state of the modules equals the timer state before the
\* hidden relay.
C19_HiddenThenVisibleRestores ==
    trip = "round" => Timers = snap

\* C20: once destroy() has run on a module and no new operation has started
\* a timer, the module has no live interval and no timer-driven action of
\* that module has happened since.
C20_DestroyClearsTimers ==
    \A m \in ModuleNames :
        destroyed[m] >= 1 => Intervals(m) = 0 /\ lastTick # m


\* C21: unload relay.  Each unload signal calls destroy() exactly once on
\* every module of the registry, in registry insertion order, and on no
\* module absent from the registry.
C21_UnloadDestroysRegistryInOrder ==
    [][unloadLog' # unloadLog =>
          LET called == unloadLog'[Len(unloadLog')]
          IN  /\ called = modules
              /\ \A i, j \in DOMAIN called : called[i] = called[j] => i = j
              /\ \A m \in ModuleNames :
                     (~InRegistry(m)) => \A i \in DOMAIN called : called[i] # m
              /\ \A m \in ModuleNames :
                     InRegistry(m) => \E i \in DOMAIN called : called[i] = m]_vars

\* An unload signal reached a page whose timeline container is missing:
\* destroy() was called on the four registered modules, in order.
C21_Witness ==
    /\ unloadLog = << <<"map", "news", "satellite", "sources">> >>
    /\ ~InRegistry("timeline")


\* C22: the coordinator never re-enters Initializing.  Once isInitialized
\* is true it stays true, no module constructor is called again and no
\* subscription is added to an event of the routing table.
C22_NoReinitialization ==
    [][isInitialized =>
          /\ isInitialized'
          /\ attempts' = attempts
          /\ \A e \in RouteEvents : events'[e] = events[e]]_vars


\* C23: single News auto-update timer.  In every reachable state at most
\* one News auto-update interval is live, and a live one is the one
\* updateTimer records.
C23_SingleNewsTimer ==
    /\ newsIntervals <= 1
    /\ newsIntervals = 1 => newsTimer

\* C24: no timer after teardown.  Once the coordinator has relayed unload,
\* no later visibility relay starts an interval of a module that was
\* destroyed by it.
C24_NoTimerAfterTeardown ==
    [][(unloadLog # <<>> /\ unloadLog' = unloadLog /\ hidden' # hidden) =>
          \A m \in ModuleNames :
              (\E k \in DOMAIN unloadLog : \E i \in DOMAIN unloadLog[k] : unloadLog[k][i] = m)
                  => Intervals(m)' <= Intervals(m)]_vars

\* C25: the satellite frame index stays valid.  Whenever currentImages is
\* not empty, 0 <= timelapseIndex < currentImages.length.
C25_FrameIndexValid ==
    nImages > 0 => (0 <= satIndex /\ satIndex < nImages)

\* C26: the playback flag matches the timer.  In the Timeline and in the
\* Satellite module isPlaying is true exactly when one playback interval
\* is live, and there is never a second one.
C26_PlayingFlagMatchesTimer ==
    /\ tlInterval <= 1
    /\ satInterval <= 1
    /\ tlPlaying = (tlInterval = 1)
    /\ satPlaying = (satInterval = 1)

\* Both playbacks run, each on one interval, and the timeline's has fired.
C26_Witness ==
    /\ tlPlaying
    /\ tlInterval = 1
    /\ satPlaying
    /\ satInterval = 1
    /\ lastTick = "timeline"
    /\ tlIndex = 2

\* C27 as stated: when playback has stopped by itself, isPlaying is false,
\* the interval is cleared and currentIndex = events.length - 1, also when
\* there are no events.
C27_StopsAtLengthMinusOne ==
    (lastTick = "timeline" /\ ~tlPlaying) =>
        (tlInterval = 0 /\ tlIndex - 1 = tlLen - 1)

\* C27, amended: after play() with nothing but timer ticks, currentIndex
\* moves by one per tick and never decreases or wraps, and playback
\* eventually stops by itself, with isPlaying false, the interval cleared
\* and currentIndex on the last event, or left at 0 when there are no events.
C27_PlaybackTerminates ==
    /\ [][tlIndex' = tlIndex \/ (tlIndex' = tlIndex + 1 /\ tlIndex' <= tlLen)]_vars
    /\ [][(tlPlaying /\ ~tlPlaying') =>
            /\ tlInterval' = 0
            /\ tlIndex' - 1 = (IF tlLen = 0 THEN 0 ELSE tlLen - 1)]_vars
    /\ (tlPlaying ~> ~tlPlaying)

\* Playback started on the first of three events has stopped by itself on
\* the last one.
C27_Witness ==
    /\ tlLen = 3
    /\ tlIndex = 3
    /\ lastTick = "timeline"
    /\ ~tlPlaying
    /\ tlInterval = 0
    /\ playNotes = <<"started", "paused">>
    /\ mapFilter = 3

\* C28: on the bus timeline:playStarted and timeline:playPaused strictly
\* alternate, starting with playStarted: the first notification is
\* playStarted and no two consecutive notifications are the same.
C28_PlayNotesAlternate ==
    /\ (Len(playNotes) = 1 => playNotes[1] = "started")
    /\ (Len(playNotes) = 2 => playNotes[1] # playNotes[2])

\* C29: route cascade within one emit.  In every emit of
\* news:articleSelected with an article that carries a date, the timeline
\* (holding events) and the map being registered, when the emit has returned
\* the timeline's current event is one at the least distance from that date
\* and the map has been filtered by that event's date: every dated marker is
\* at full opacity exactly if its date is within WindowDays of it.
C29_ArticleCascadeInOneEmit ==
    [][(/\ lastEmit'.ev = "news:articleSelected"
        /\ lastEmit'.b # 0
        /\ InRegistry("timeline")
        /\ InRegistry("map")
        /\ tlDates # <<>>) =>
          /\ \A j \in DOMAIN tlDates :
                Abs(tlDates[tlIndex'] - lastEmit'.b) <= Abs(tlDates[j] - lastEmit'.b)
          /\ mapFilter' = tlDates[tlIndex']
          /\ \A mk \in Markers :
                locDate[mk] # 0 =>
                    ((opacity'[mk] = "full") =
                        (Abs(tlDates[tlIndex'] - locDate[mk]) <= WindowDays))]_vars

\* An article dated day 5 was selected after a date-range filter: the
\* timeline is on its second event, of day 6, and the map was filtered by
\* that day.
C29_Witness ==
    /\ lastEmit = [ev |-> "news:articleSelected", a |-> 5, b |-> 5]
    /\ InRegistry("timeline")
    /\ InRegistry("map")
    /\ tlDates = <<2, 6>>
    /\ tlIndex = 2
    /\ mapFilter = 6
    /\ rangeCalls # {}
    /\ \E mk \in Markers : locDate[mk] # 0 /\ opacity[mk] = "full"

\* C30: app:ready ordering.  Whenever app:ready is emitted every module
\* descriptor of the running init() has been attempted and has settled, the
\* routing table is installed and isInitialized is true, so a subscriber
\* finds isReady() true; each init() call emits it at most once, as its
\* last step, and an init() that has not reached Ready has not emitted it.
C30_ReadyEmittedLast ==
    /\ \A i \in DOMAIN readyEmit :
          /\ readyEmit[i].isReady
          /\ readyEmit[i].wired
          /\ readyEmit[i].attempted
    /\ Len(readyEmit) <= inits
    /\ (appPc = "ready" => Len(readyEmit) = inits)
    /\ ((appPc # "ready" /\ inits > 0) => Len(readyEmit) = inits - 1)

\* A second init() call has finished too: app:ready was emitted twice,
\* once per call, the second time with the map module absent.
C30_Witness ==
    /\ appPc = "ready"
    /\ inits = 2
    /\ Len(readyEmit) = 2
    /\ isInitialized
    /\ inst["map"] = "ctorThrew"
    /\ attempts["sources"] = 2

=============================================================================
